---- MODULE Spec2Model ----
(***************************************************************************)
(* A model of the Anki Italian-verb deck generator: the cross-product      *)
(* expansion of the vocabulary (create_deck.build_verb_package_list), the  *)
(* content stages of one work item (create_content.create_flashcard_pair), *)
(* the disk-backed conjugation cache (get_conjugation_from_disk), the      *)
(* tenacity retry loops around the external calls, and the thread-pool     *)
(* fan-out of create_deck.build_note_list.                                 *)
(*                                                                         *)
(* Strings are modelled by what the code does with them:                   *)
(*   - a subject is a sequence of characters (str.replace works on them);  *)
(*   - a sentence is the sequence of spaCy tokens nlp() yields for it;     *)
(*   - a cloze text is the sequence of pieces that " ".join() glues;       *)
(*   - verbs and tenses are atoms; verbs hold no space, so the composite   *)
(*     key verb + " " + tense never equals a bare verb and determines the  *)
(*     pair: it is the tuple <<verb, tense>>, kept in a map of its own.    *)
(***************************************************************************)
EXTENDS Integers, Sequences, FiniteSets, Bags, TLC

VARIABLES
    harness,        \* which entry point of the program this run exercises
    exp,            \* build_verb_package_list: its arguments and its result
    clz,            \* create_flashcard_cloze: the verb package it works on
    lnk,            \* get_wikipedia_link_for_subject: package and result
    rty,            \* one invocation of a @retry-decorated operation
    file,           \* conjugations.txt, the cache file on disk
    conj_requests,  \* conjugation-table requests sent to the LLM, per key
    work,           \* verb_package_list.verb_packages (mutated in place)
    pc,             \* per work item / call: where its thread stands
    attempt,        \* per work item / call: tenacity's attempt_number
    loc,            \* per work item / call: locals of get_conjugation_from_disk
    main,           \* the thread running build_note_list
    notes,          \* build_note_list: the notes list
    max_workers,    \* ThreadPoolExecutor(max_workers=...)
    flaky,          \* work items whose external requests have failed so far
    calls           \* sequential harness: the calls made so far, in order

vars == <<harness, exp, clz, lnk, rty, file, conj_requests, work, pc, attempt,
          loc, main, notes, max_workers, flaky, calls>>

-----------------------------------------------------------------------------
(* Bounds of the model.                                                    *)

\* longest vocabulary list handed to build_verb_package_list
MaxListLen == 2
\* longest token sequence handed to create_cloze
MaxTokens == 4
\* longest subject string handed to get_wikipedia_link_for_subject
MaxSubjectLen == 4
\* most work items in one build_note_list run
MaxItems == 2
\* most get_conjugation_from_disk calls in one sequential run
MaxCalls == 3

(* Program constants.                                                      *)

\* constants.py / create_content.py: STOP_AFTER
STOP_AFTER == 10
\* create_content.py: stop_after_attempt(6) on create_flashcard_extra
STOP_AFTER_EXTRA == 6

-----------------------------------------------------------------------------
(* Vocabulary the inputs are drawn from.                                   *)

Verbs == {"avere", "essere"}
Tenses == {"Presente", "Imperfetto"}
Persons == {"1st person plural", "3rd person singular"}

\* characters of a subject string
Chars == {"a", " ", "_"}

\* spaCy token attributes
Texts == {"ho", "stato"}
Lemmas == {"avere", "essere"}
PosTags == {"AUX", "NOUN"}
Tokens == [text : Texts, lemma_ : Lemmas, pos_ : PosTags]

SeqsUpTo(S, n) == UNION {[1..k -> S] : k \in 0..n}

Range(s) == {s[i] : i \in DOMAIN s}

\* the empty str / list / dict
Empty == <<>>

-----------------------------------------------------------------------------
(* data_types.VerbPackage                                                  *)

VerbPackage(verb, tense, person, subject) ==
    [verb |-> verb, tense |-> tense, person |-> person, subject |-> subject,
     sentence |-> Empty, flashcard_cloze |-> Empty, flashcard_extra |-> Empty]

-----------------------------------------------------------------------------
(* create_deck.build_verb_package_list                                     *)

\* for person in persons: verb_packages.append(VerbPackage(verb, tense, person))
RECURSIVE PersonLoop(_, _, _, _, _)
PersonLoop(verb, tense, persons, subject, k) ==
    IF k > Len(persons) THEN <<>>
    ELSE <<VerbPackage(verb, tense, persons[k], subject)>>
         \o PersonLoop(verb, tense, persons, subject, k + 1)

\* for tense in tenses: ...
RECURSIVE TenseLoop(_, _, _, _, _)
TenseLoop(verb, tenses, persons, subject, j) ==
    IF j > Len(tenses) THEN <<>>
    ELSE PersonLoop(verb, tenses[j], persons, subject, 1)
         \o TenseLoop(verb, tenses, persons, subject, j + 1)

\* for verb in verbs: ...
RECURSIVE VerbLoop(_, _, _, _, _)
VerbLoop(verbs, tenses, persons, subject, i) ==
    IF i > Len(verbs) THEN <<>>
    ELSE TenseLoop(verbs[i], tenses, persons, subject, 1)
         \o VerbLoop(verbs, tenses, persons, subject, i + 1)

\* the innermost loop stopping one person short
BuildSkippingLastPerson(verbs, tenses, persons, subject) ==
    VerbLoop(verbs, tenses, SubSeq(persons, 1, Len(persons) - 1), subject, 1)

build_verb_package_list(verbs, tenses, persons, subject) ==
    VerbLoop(verbs, tenses, persons, subject, 1)

-----------------------------------------------------------------------------
(* utils.get_wikipedia_link_for_subject                                    *)

base_url == <<"https://en.wikipedia.org/w/index.php?fulltext=1&search=">>

\* str.replace(" ", "_"): scans the string left to right
RECURSIVE Replace(_, _, _)
Replace(s, old, new) ==
    IF s = <<>> THEN <<>>
    ELSE <<IF Head(s) = old THEN new ELSE Head(s)>> \o Replace(Tail(s), old, new)

RECURSIVE ReplaceFirst(_, _, _)
ReplaceFirst(s, old, new) ==
    IF s = <<>> THEN <<>>
    ELSE IF Head(s) = old THEN <<new>> \o Tail(s)
         ELSE <<Head(s)>> \o ReplaceFirst(Tail(s), old, new)

\* only the first space replaced
SubjectParamFirstOnly(subject) == ReplaceFirst(subject, " ", "_")

\* subject = verb_package.subject.replace(" ", "_")
SubjectParam(subject) == Replace(subject, " ", "_")

\* final_url = base_url + subject.replace(" ", "_"); the result is the HTML
\* fragment around it
get_wikipedia_link_for_subject(verb_package) ==
    [html |-> "<p>For more on this topic see <a href=...>Wikipedia</a></p>",
     final_url |-> base_url \o SubjectParam(verb_package.subject)]

-----------------------------------------------------------------------------
(* create_content.create_cloze and create_flashcard_cloze                  *)

\* token.lemma_ == infinitive and token.pos_ in {"AUX", "VERB"}
IsVerbToken(token, infinitive) ==
    token.lemma_ = infinitive /\ token.pos_ \in {"AUX", "VERB"}

\* pieces of cloze_text_with_phrases
Open(text)  == [k |-> "{{c1::", text |-> text]
Plain(text) == [k |-> "", text |-> text]
Close       == [k |-> "}}", text |-> ""]

\* First loop: collects the runs of consecutive verb tokens. st is
\* [verb_phrases, current_phrase].
RECURSIVE FirstPass(_, _, _, _)
FirstPass(doc, infinitive, i, st) ==
    IF i > Len(doc) THEN st
    ELSE IF IsVerbToken(doc[i], infinitive)
         THEN FirstPass(doc, infinitive, i + 1,
                  [st EXCEPT !.current_phrase = Append(@, doc[i].text)])
         ELSE FirstPass(doc, infinitive, i + 1,
                  IF st.current_phrase # <<>>
                  THEN [verb_phrases |-> Append(st.verb_phrases, st.current_phrase),
                        current_phrase |-> <<>>]
                  ELSE st)

\* After the first loop a trailing phrase is appended to verb_phrases and
\* current_phrase is NOT reset: it stays the very list object that is now the
\* last element of verb_phrases (aliased).
AfterFirstPass(doc, infinitive) ==
    LET st == FirstPass(doc, infinitive, 1,
                        [verb_phrases |-> <<>>, current_phrase |-> <<>>])
    IN  IF st.current_phrase # <<>>
        THEN [verb_phrases |-> Append(st.verb_phrases, st.current_phrase),
              current_phrase |-> st.current_phrase,
              aliased |-> TRUE]
        ELSE [verb_phrases |-> st.verb_phrases,
              current_phrase |-> <<>>,
              aliased |-> FALSE]

\* One iteration of the second loop. st is [verb_phrases, current_phrase,
\* aliased, phrase_idx, out, raised]; phrase_idx is 0-based as in the code.
SecondPassStep(token, infinitive, st) ==
    IF ~IsVerbToken(token, infinitive)
    THEN [st EXCEPT !.out = Append(@, Plain(token.text))]
    ELSE IF st.phrase_idx >= Len(st.verb_phrases)
    THEN [st EXCEPT !.raised = TRUE]          \* IndexError
    ELSE IF token.text \notin Range(st.verb_phrases[st.phrase_idx + 1])
    THEN [st EXCEPT !.out = Append(@, Plain(token.text))]
    ELSE
      LET piece == IF st.current_phrase = <<>> THEN Open(token.text)
                   ELSE Plain(token.text)
          cur   == Append(st.current_phrase, token.text)
          \* current_phrase.append() also grows the aliased last phrase
          vps   == IF st.aliased
                   THEN [st.verb_phrases EXCEPT ![Len(st.verb_phrases)] = cur]
                   ELSE st.verb_phrases
      IN  IF Len(cur) = Len(vps[st.phrase_idx + 1])
          THEN [st EXCEPT !.out = @ \o <<piece, Close>>,
                          !.verb_phrases = vps,
                          !.phrase_idx = @ + 1,
                          !.current_phrase = <<>>,
                          !.aliased = FALSE]
          ELSE [st EXCEPT !.out = Append(@, piece),
                          !.verb_phrases = vps,
                          !.current_phrase = cur]

RECURSIVE SecondPass(_, _, _, _)
SecondPass(doc, infinitive, i, st) ==
    IF i > Len(doc) \/ st.raised THEN st
    ELSE SecondPass(doc, infinitive, i + 1, SecondPassStep(doc[i], infinitive, st))

\* create_cloze: [raised, flashcard_cloze]
create_cloze(verb_package) ==
    LET first == AfterFirstPass(verb_package.sentence, verb_package.verb)
        st == SecondPass(verb_package.sentence, verb_package.verb, 1,
                  [verb_phrases |-> first.verb_phrases,
                   current_phrase |-> first.current_phrase,
                   aliased |-> first.aliased,
                   phrase_idx |-> 0, out |-> <<>>, raised |-> FALSE])
    IN  [raised |-> st.raised, flashcard_cloze |-> st.out,
         phrase_idx |-> st.phrase_idx, verb_phrases |-> st.verb_phrases]

\* create_flashcard_cloze: the cloze inside <p>..</p>, then a <p> with the
\* verb, person and tense. An exception of create_cloze propagates.
create_flashcard_cloze(verb_package) ==
    LET c == create_cloze(verb_package)
    IN  IF c.raised THEN [raised |-> TRUE, verb_package |-> verb_package]
        ELSE [raised |-> FALSE,
              verb_package |->
                [verb_package EXCEPT !.flashcard_cloze =
                    [cloze |-> c.flashcard_cloze,
                     hint |-> <<verb_package.verb, verb_package.person,
                                verb_package.tense>>]]]

-----------------------------------------------------------------------------
(* tenacity: @retry(wait=..., stop=stop_after_attempt(n))                  *)

\* stop_after_attempt(n) also retrying once more after the n-th attempt
StopAfterAttemptLate(attempt_number, n) == attempt_number > n

\* stop_after_attempt(n): true once attempt_number has reached n
StopAfterAttempt(attempt_number, n) == attempt_number >= n

\* the retried operations and the stop-after bound each is decorated with
RetriedOps ==
    {"create_italian_sentence", "get_conjugated", "get_conjugation_from_llm",
     "create_flashcard_extra"}

StopBound(op) ==
    IF op = "create_flashcard_extra" THEN STOP_AFTER_EXTRA ELSE STOP_AFTER

\* what the external service can answer
Responses == {"r1", "r2", "r3"}

\* what the operation makes of the service's answer
OpResult(op, response) == <<op, response>>

\* One attempt of the decorated function: the external call raises, and
\* tenacity either stops (RetryError) or sleeps and calls again; or the call
\* answers and the operation returns.
RetryAttemptFails ==
    /\ harness = "retry"
    /\ rty.status = "calling"
    /\ rty' = IF StopAfterAttempt(rty.attempt_number, StopBound(rty.op))
              THEN [rty EXCEPT !.status = "raised", !.failures = @ + 1]
              ELSE [rty EXCEPT !.attempt_number = @ + 1, !.failures = @ + 1]
    /\ UNCHANGED <<harness, exp, clz, lnk, file, conj_requests, work, pc,
                   attempt, loc, main, notes, max_workers, flaky, calls>>

RetryAttemptSucceeds ==
    /\ harness = "retry"
    /\ rty.status = "calling"
    /\ \E response \in Responses :
          rty' = [rty EXCEPT !.status = "returned",
                             !.response = response,
                             !.result = OpResult(rty.op, response)]
    /\ UNCHANGED <<harness, exp, clz, lnk, file, conj_requests, work, pc,
                   attempt, loc, main, notes, max_workers, flaky, calls>>

-----------------------------------------------------------------------------
(* The conjugation cache: get_conjugation_from_disk, get_conjugation_from_llm *)

EmptyMap == [k \in {} |-> Empty]

\* d[k] = v on a dict
DictSet(d, k, v) == [x \in DOMAIN d \cup {k} |-> IF x = k THEN v ELSE d[x]]

\* verb_tense = verb_package.verb + " " + verb_package.tense
VerbTense(verb_package) == <<verb_package.verb, verb_package.tense>>

\* The JSON object in the file: its string-valued entries under composite
\* keys (flat) and its dict-valued entries under verbs (nested).  state is
\* "absent" (no file), "ok" (a JSON object), "empty" (truncated by open(.., "w")
\* and not yet written) or "corrupt" (a shorter dump written over a longer one).
AbsentFile == [state |-> "absent", flat |-> EmptyMap, nested |-> EmptyMap]
EmptyFile == [state |-> "empty", flat |-> EmptyMap, nested |-> EmptyMap]
CorruptFile == [state |-> "corrupt", flat |-> EmptyMap, nested |-> EmptyMap]
OkFile(conjugations) ==
    [state |-> "ok", flat |-> conjugations.flat, nested |-> conjugations.nested]

\* what the LLM can answer when asked for a conjugation table (in a pool run
\* every answer is taken to be the same table)
ConjTables ==
    IF harness = "get_conjugation_from_disk"
    THEN {"<ul>1</ul>", "<ul>2</ul>"} ELSE {"<ul>1</ul>"}

\* get_conjugation_from_llm: final_output, the answer inside a fixed fragment
\* naming the verb and the tense
get_conjugation_from_llm(verb_package, response) ==
    <<"Coniugazione di", verb_package.verb, verb_package.tense, response>>

\* conjugations[verb_tense] = conjugation, with the dict forgotten first
ExceptBranchStoreAlone(conjugations, verb_package, conjugation) ==
    [flat |-> DictSet(EmptyMap, VerbTense(verb_package), conjugation),
     nested |-> EmptyMap]

\* except KeyError: conjugations[verb_tense] = conjugation
ExceptBranchStore(conjugations, verb_package, conjugation) ==
    [conjugations EXCEPT
       !.flat = DictSet(@, VerbTense(verb_package), conjugation)]

\* else: conjugations[verb_package.verb] = {verb_package.tense: conjugation}
ElseBranchStore(conjugations, verb_package, conjugation) ==
    [conjugations EXCEPT
       !.nested = DictSet(@, verb_package.verb,
                          DictSet(EmptyMap, verb_package.tense, conjugation))]

\* locals of one get_conjugation_from_disk call (and of the
\* create_flashcard_extra attempt around it)
NoLocals ==
    [translation |-> Empty, conjugation |-> Empty,
     conjugations |-> [flat |-> EmptyMap, nested |-> EmptyMap],
     branch |-> "", asked |-> FALSE, exception |-> ""]

\* most requests counted per key: the count stops there ("that many or more")
RequestCap == 2

CountRequest(key) ==
    DictSet(conj_requests, key,
            IF key \in DOMAIN conj_requests
            THEN IF conj_requests[key] < RequestCap
                 THEN conj_requests[key] + 1 ELSE RequestCap
            ELSE 1)

\* thread i stands at p
At(i, p) == i \in DOMAIN pc /\ pc[i] = p

InPipeline == harness = "build_note_list"

\* The environment (single-fault runs): the external services fail, any
\* number of times, for the requests of at most one work item of a run.
MayFail(i) == flaky \subseteq {i}
InDirect == harness = "get_conjugation_from_disk"

\* translation service: TranslatedText for a sentence
Translate(sentence) == <<"en", sentence>>

\* create_flashcard_extra: final_output
FlashcardExtra(translation, conjugation, link) ==
    [translation |-> translation, conjugation |-> conjugation, link |-> link]

\* get_conjugation_from_disk returns conjugation to its caller: in the
\* pipeline create_flashcard_extra assembles the extra field and
\* create_flashcard_pair returns; called directly, the call is over.
ReturnConjugation(i, conjugation, asked, miss) ==
    IF InPipeline
    THEN /\ work' = [work EXCEPT ![i].flashcard_extra =
                        FlashcardExtra(loc[i].translation, conjugation,
                            get_wikipedia_link_for_subject(work[i]).final_url)]
         /\ pc' = [pc EXCEPT ![i] = "done"]
         /\ loc' = [loc EXCEPT ![i] = [NoLocals EXCEPT !.asked = asked,
                                                      !.branch = IF miss THEN "miss" ELSE "hit"]]
         /\ attempt' = [attempt EXCEPT ![i] = 0]
         /\ UNCHANGED calls
    ELSE /\ pc' = [pc EXCEPT ![i] = "returned"]
         /\ calls' = [calls EXCEPT !.cur.status = "returned",
                                   !.cur.ret = conjugation,
                                   !.cur.asked = asked,
                                   !.cur.miss = miss]
         /\ loc' = [loc EXCEPT ![i] = NoLocals]
         /\ attempt' = [attempt EXCEPT ![i] = 0]
         /\ UNCHANGED work

\* the retry wrapped around the whole of create_flashcard_pair: the next
\* attempt starts again at create_italian_sentence
PairAttemptRaises(i) ==
    /\ IF StopAfterAttempt(attempt[i], STOP_AFTER_EXTRA)
       THEN /\ pc' = [pc EXCEPT ![i] = "failed"]
            /\ attempt' = [attempt EXCEPT ![i] = 0]
            /\ loc' = [loc EXCEPT ![i] = [NoLocals EXCEPT !.exception = "RetryError"]]
       ELSE /\ pc' = [pc EXCEPT ![i] = "sentence"]
            /\ attempt' = [attempt EXCEPT ![i] = @ + 1]
            /\ loc' = [loc EXCEPT ![i] = NoLocals]
    /\ UNCHANGED <<work, calls>>

\* An exception leaves the body of create_flashcard_extra: tenacity stops
\* with RetryError after the last attempt, or calls the body again.
ExtraAttemptRaises(i) ==
    /\ IF StopAfterAttempt(attempt[i], STOP_AFTER_EXTRA)
       THEN /\ pc' = [pc EXCEPT ![i] = "failed"]
            /\ attempt' = [attempt EXCEPT ![i] = 0]
            /\ loc' = [loc EXCEPT ![i] = [NoLocals EXCEPT !.exception = "RetryError"]]
       ELSE /\ pc' = [pc EXCEPT ![i] = "translate"]
            /\ attempt' = [attempt EXCEPT ![i] = @ + 1]
            /\ loc' = [loc EXCEPT ![i] = NoLocals]
    /\ UNCHANGED <<work, calls>>

\* if os.path.exists(CONJUGATIONS_FILE) is false: the else branch
DiskReadAbsent(i) ==
    /\ At(i, "disk")
    /\ file.state = "absent"
    /\ loc' = [loc EXCEPT ![i].branch = "else"]
    /\ pc' = [pc EXCEPT ![i] = "llm"]
    /\ UNCHANGED <<harness, exp, clz, lnk, rty, file, conj_requests, work,
                   attempt, main, notes, max_workers, flaky, calls>>

\* json.load, then conjugations[verb_tense] is there: return it
DiskReadHit(i) ==
    /\ At(i, "disk")
    /\ file.state = "ok"
    /\ VerbTense(work[i]) \in DOMAIN file.flat
    /\ ReturnConjugation(i, file.flat[VerbTense(work[i])], loc[i].asked, FALSE)
    /\ UNCHANGED <<harness, exp, clz, lnk, rty, file, conj_requests, main,
                   notes, max_workers, flaky>>

\* json.load, then KeyError
DiskReadMiss(i) ==
    /\ At(i, "disk")
    /\ file.state = "ok"
    /\ VerbTense(work[i]) \notin DOMAIN file.flat
    /\ loc' = [loc EXCEPT ![i].branch = "except",
                          ![i].conjugations =
                              [flat |-> file.flat, nested |-> file.nested]]
    /\ pc' = [pc EXCEPT ![i] = "llm"]
    /\ UNCHANGED <<harness, exp, clz, lnk, rty, file, conj_requests, work,
                   attempt, main, notes, max_workers, flaky, calls>>

\* json.load raises JSONDecodeError on a truncated or overwritten file
DiskReadUnreadable(i) ==
    /\ InPipeline
    /\ At(i, "disk")
    /\ file.state \in {"empty", "corrupt"}
    /\ ExtraAttemptRaises(i)
    /\ UNCHANGED <<harness, exp, clz, lnk, rty, file, conj_requests, main,
                   notes, max_workers, flaky>>

\* the chat completion request succeeds
LlmAnswers(i) ==
    /\ At(i, "llm")
    /\ \E response \in ConjTables :
         LET conjugation == get_conjugation_from_llm(work[i], response)
         IN  loc' = [loc EXCEPT
                       ![i].asked = TRUE,
                       ![i].conjugation = conjugation,
                       ![i].conjugations =
                           IF loc[i].branch = "else"
                           THEN ElseBranchStore(@, work[i], conjugation)
                           ELSE ExceptBranchStore(@, work[i], conjugation)]
    /\ conj_requests' = CountRequest(VerbTense(work[i]))
    /\ pc' = [pc EXCEPT ![i] = "open_w"]
    /\ UNCHANGED <<harness, exp, clz, lnk, rty, file, work, attempt, main,
                   notes, max_workers, flaky, calls>>

\* the request fails, create_content.get_conjugation_from_llm (not retried):
\* the exception leaves get_conjugation_from_disk and create_flashcard_extra
LlmFailsInExtra(i) ==
    /\ InPipeline
    /\ At(i, "llm")
    /\ MayFail(i)
    /\ flaky' = flaky \cup {i}
    /\ conj_requests' = CountRequest(VerbTense(work[i]))
    /\ ExtraAttemptRaises(i)
    /\ UNCHANGED <<harness, exp, clz, lnk, rty, file, main, notes, max_workers>>

\* the request fails, utils.get_conjugation_from_llm (@retry, STOP_AFTER)
LlmFailsRetried(i) ==
    /\ InDirect
    /\ At(i, "llm")
    /\ conj_requests' = CountRequest(VerbTense(work[i]))
    /\ IF StopAfterAttempt(attempt[i], STOP_AFTER)
       THEN /\ pc' = [pc EXCEPT ![i] = "raised"]
            /\ calls' = [calls EXCEPT !.cur.status = "raised",
                                      !.cur.asked = TRUE, !.cur.miss = TRUE]
            /\ loc' = [loc EXCEPT ![i] = NoLocals]
            /\ attempt' = [attempt EXCEPT ![i] = 0]
       ELSE /\ attempt' = [attempt EXCEPT ![i] = @ + 1]
            /\ loc' = [loc EXCEPT ![i].asked = TRUE]
            /\ UNCHANGED <<pc, calls>>
    /\ UNCHANGED <<harness, exp, clz, lnk, rty, file, work, main, notes,
                   max_workers, flaky>>

\* open(CONJUGATIONS_FILE, "w"): creates or truncates the file
OpenForWrite(i) ==
    /\ At(i, "open_w")
    /\ file' = EmptyFile
    /\ pc' = [pc EXCEPT ![i] = "dump"]
    /\ UNCHANGED <<harness, exp, clz, lnk, rty, conj_requests, work, attempt,
                   loc, main, notes, max_workers, flaky, calls>>

\* what the file holds after this thread's json.dump reached it: the bytes go
\* to offset 0 of whatever is there.  On a file another thread has written
\* since this one truncated it, a shorter dump leaves the other's tail behind.
DumpedFile(conjugations) ==
    IF file.state = "empty"
    THEN {OkFile(conjugations)}
    ELSE {OkFile(conjugations), CorruptFile}

\* json.dump(conjugations, json_file) and the close that flushes it; then
\* return conjugation
Dump(i) ==
    /\ At(i, "dump")
    /\ file' \in DumpedFile(loc[i].conjugations)
    /\ ReturnConjugation(i, loc[i].conjugation, TRUE, TRUE)
    /\ UNCHANGED <<harness, exp, clz, lnk, rty, conj_requests, main, notes,
                   max_workers, flaky>>

-----------------------------------------------------------------------------
(* Harness: get_conjugation_from_disk called again and again by one thread. *)

NoCall == [status |-> "none"]

\* the file before the first call: none, an empty object, one entry
InitialFiles ==
    {AbsentFile,
     OkFile([flat |-> EmptyMap, nested |-> EmptyMap]),
     OkFile([flat |-> DictSet(EmptyMap, <<"avere", "Presente">>,
                        get_conjugation_from_llm(
                          [verb |-> "avere", tense |-> "Presente"], "<ul>1</ul>")),
             nested |-> EmptyMap])}

DirectInit ==
    /\ harness = "get_conjugation_from_disk"
    /\ file \in InitialFiles
    /\ calls = [n |-> 0, file0 |-> file, prev |-> NoCall, cur |-> NoCall]
    /\ conj_requests = EmptyMap
    /\ work = <<>> /\ pc = <<>> /\ attempt = <<>> /\ loc = <<>>
    /\ main = [pc |-> "idle"] /\ notes = <<>> /\ max_workers = 0
    /\ flaky = {}
    /\ exp = [status |-> "idle"] /\ clz = [status |-> "idle"]
    /\ lnk = [status |-> "idle"] /\ rty = [status |-> "idle"]

\* the caller calls get_conjugation_from_disk(verb_package); the previous
\* call, if any, is over
CallFromDisk ==
    /\ InDirect
    /\ calls.n < MaxCalls
    /\ calls.cur.status \in {"none", "returned", "raised"}
    /\ \E verb \in Verbs, tense \in {"Presente"} :
         /\ work' = <<VerbPackage(verb, tense, "1st person plural", <<"a">>)>>
         /\ calls' = [calls EXCEPT
                        !.n = @ + 1,
                        !.prev = calls.cur,
                        !.cur = [status |-> "running", verb |-> verb,
                                 tense |-> tense, ret |-> Empty,
                                 asked |-> FALSE, miss |-> FALSE,
                                 before |-> file, requests_before |-> conj_requests]]
    /\ pc' = <<"disk">>
    /\ attempt' = <<1>>
    /\ loc' = <<NoLocals>>
    /\ UNCHANGED <<harness, exp, clz, lnk, rty, file, conj_requests, main,
                   notes, max_workers, flaky>>

DirectNext ==
    \/ CallFromDisk
    \/ DiskReadAbsent(1)
    \/ DiskReadHit(1)
    \/ DiskReadMiss(1)
    \/ LlmAnswers(1)
    \/ LlmFailsRetried(1)
    \/ OpenForWrite(1)
    \/ Dump(1)

DirectSpec == DirectInit /\ [][DirectNext]_vars

-----------------------------------------------------------------------------
(* create_content.create_flashcard_pair: the stages of one work item       *)

\* sentences the LLM can answer with when asked to use verb (as nlp()
\* tokenizes them): one with the verb inside, one ending in a compound form
SentencePool(verb) ==
    {<<[text |-> "ho", lemma_ |-> verb, pos_ |-> "AUX"],
       [text |-> "stato", lemma_ |-> "stato", pos_ |-> "NOUN"]>>,
     <<[text |-> "ho", lemma_ |-> verb, pos_ |-> "AUX"],
       [text |-> "stato", lemma_ |-> verb, pos_ |-> "VERB"]>>}

RunningPcs == {"sentence", "cloze", "translate", "disk", "llm", "open_w", "dump"}

Running(i) == pc[i] \in RunningPcs

Items == DOMAIN work

\* a pool thread takes the next work item off the executor's queue and
\* enters create_flashcard_pair, create_italian_sentence
WorkerStart(i) ==
    /\ InPipeline
    /\ At(i, "queued")
    /\ \A j \in Items : j < i => pc[j] # "queued"
    /\ Cardinality({j \in Items : Running(j)}) < max_workers
    /\ pc' = [pc EXCEPT ![i] = "sentence"]
    /\ attempt' = [attempt EXCEPT ![i] = 1]
    /\ UNCHANGED <<harness, exp, clz, lnk, rty, file, conj_requests, work, loc,
                   main, notes, max_workers, flaky, calls>>

\* create_italian_sentence: the chat completion request fails
SentenceFails(i) ==
    /\ At(i, "sentence")
    /\ MayFail(i)
    /\ flaky' = flaky \cup {i}
    /\ IF StopAfterAttempt(attempt[i], STOP_AFTER)
       THEN /\ pc' = [pc EXCEPT ![i] = "failed"]
            /\ attempt' = [attempt EXCEPT ![i] = 0]
            /\ loc' = [loc EXCEPT ![i].exception = "RetryError"]
       ELSE /\ attempt' = [attempt EXCEPT ![i] = @ + 1]
            /\ UNCHANGED <<pc, loc>>
    /\ UNCHANGED <<harness, exp, clz, lnk, rty, file, conj_requests, work,
                   main, notes, max_workers, calls>>

\* create_italian_sentence: verb_package.sentence = the answer
SentenceAnswers(i) ==
    /\ At(i, "sentence")
    /\ \E sentence \in SentencePool(work[i].verb) :
          work' = [work EXCEPT ![i].sentence = sentence]
    /\ pc' = [pc EXCEPT ![i] = "cloze"]
    /\ UNCHANGED <<harness, exp, clz, lnk, rty, file, conj_requests, attempt,
                   loc, main, notes, max_workers, flaky, calls>>

\* create_flashcard_cloze (not retried: an IndexError of create_cloze leaves
\* create_flashcard_pair); then create_flashcard_extra is entered
FlashcardCloze(i) ==
    /\ At(i, "cloze")
    /\ LET r == create_flashcard_cloze(work[i])
       IN  IF r.raised
           THEN /\ pc' = [pc EXCEPT ![i] = "failed"]
                /\ attempt' = [attempt EXCEPT ![i] = 0]
                /\ loc' = [loc EXCEPT ![i].exception = "IndexError"]
                /\ UNCHANGED work
           ELSE /\ work' = [work EXCEPT ![i] = r.verb_package]
                /\ pc' = [pc EXCEPT ![i] = "translate"]
                /\ attempt' = [attempt EXCEPT ![i] = 1]
                /\ UNCHANGED loc
    /\ UNCHANGED <<harness, exp, clz, lnk, rty, file, conj_requests, main,
                   notes, max_workers, flaky, calls>>

\* create_flashcard_extra: client.translate_text raises
TranslateFails(i) ==
    /\ At(i, "translate")
    /\ MayFail(i)
    /\ flaky' = flaky \cup {i}
    /\ ExtraAttemptRaises(i)
    /\ UNCHANGED <<harness, exp, clz, lnk, rty, file, conj_requests, main,
                   notes, max_workers>>

\* create_flashcard_extra: translation = ...["TranslatedText"]; then
\* get_conjugation_from_disk is entered
TranslateAnswers(i) ==
    /\ At(i, "translate")
    /\ loc' = [loc EXCEPT ![i] = [NoLocals EXCEPT
                                    !.translation = Translate(work[i].sentence)]]
    /\ pc' = [pc EXCEPT ![i] = "disk"]
    /\ UNCHANGED <<harness, exp, clz, lnk, rty, file, conj_requests, work,
                   attempt, main, notes, max_workers, flaky, calls>>

-----------------------------------------------------------------------------
(* create_deck.build_note_list                                             *)

\* genanki Note(model=MY_CLOZE_MODEL, fields=[flashcard_cloze, flashcard_extra])
create_note(verb_package) ==
    [fields |-> <<verb_package.flashcard_cloze, verb_package.flashcard_extra>>]

\* executor.map(create_flashcard_pair, verb_packages): one future per item,
\* all submitted before the first result is waited for
Dispatch ==
    /\ InPipeline
    /\ main.pc = "idle"
    /\ pc' = [i \in Items |-> "queued"]
    /\ main' = [main EXCEPT !.pc = "collect"]
    /\ UNCHANGED <<harness, exp, clz, lnk, rty, file, conj_requests, work,
                   attempt, loc, notes, max_workers, flaky, calls>>

\* waiting for the first future only
AwaitedFirstOnly == {i \in Items : i = 1 /\ pc[i] # "done"}

\* list(...) waits for the futures' results in input order: the first work
\* item whose future has no result yet
Awaited == {i \in Items : pc[i] # "done" /\ \A j \in Items : j < i => pc[j] = "done"}

\* list(...): the awaited future holds an exception; result() raises it, and
\* the map iterator's finally clause cancels the futures not yet started
CollectException ==
    /\ InPipeline
    /\ main.pc = "collect"
    /\ \E i \in Awaited : pc[i] = "failed"
    /\ pc' = [i \in Items |-> IF pc[i] = "queued" THEN "cancelled" ELSE pc[i]]
    /\ main' = [main EXCEPT !.pc = "shutdown", !.exception = TRUE]
    /\ UNCHANGED <<harness, exp, clz, lnk, rty, file, conj_requests, work,
                   attempt, loc, notes, max_workers, flaky, calls>>

\* list(...) has every result: the with block is left
CollectDone ==
    /\ InPipeline
    /\ main.pc = "collect"
    /\ Awaited = {}
    /\ main' = [main EXCEPT !.pc = "shutdown"]
    /\ UNCHANGED <<harness, exp, clz, lnk, rty, file, conj_requests, work, pc,
                   attempt, loc, notes, max_workers, flaky, calls>>

\* ThreadPoolExecutor.__exit__: shutdown(wait=True) joins the pool threads;
\* then the pending exception propagates out of build_note_list, or the
\* notes loop starts
Shutdown ==
    /\ InPipeline
    /\ main.pc = "shutdown"
    /\ \A i \in Items : ~Running(i) /\ pc[i] # "queued"
    /\ main' = [main EXCEPT !.pc = IF main.exception THEN "raised" ELSE "notes"]
    /\ UNCHANGED <<harness, exp, clz, lnk, rty, file, conj_requests, work, pc,
                   attempt, loc, notes, max_workers, flaky, calls>>

\* for final_verb_package in final_verb_packages: notes.append(create_note(..))
CreateNote ==
    /\ InPipeline
    /\ main.pc = "notes"
    /\ main.next \in Items
    /\ notes' = Append(notes, create_note(work[main.next]))
    /\ main' = [main EXCEPT !.next = @ + 1]
    /\ UNCHANGED <<harness, exp, clz, lnk, rty, file, conj_requests, work, pc,
                   attempt, loc, max_workers, flaky, calls>>

\* sampling with replacement instead of permuting
Choices(list) == {[i \in DOMAIN list |-> list[p[i]]] : p \in [DOMAIN list -> DOMAIN list]}

\* the orders random.shuffle can leave a list in
Shuffles(list) ==
    {[i \in DOMAIN list |-> list[p[i]]] :
        p \in {q \in [DOMAIN list -> DOMAIN list] :
                 \A a, b \in DOMAIN list : a # b => q[a] # q[b]}}

\* shuffle(notes); return NoteList(name, notes)
ShuffleAndReturn ==
    /\ InPipeline
    /\ main.pc = "notes"
    /\ main.next \notin Items
    /\ notes' \in Shuffles(notes)
    /\ main' = [main EXCEPT !.pc = "returned"]
    /\ UNCHANGED <<harness, exp, clz, lnk, rty, file, conj_requests, work, pc,
                   attempt, loc, max_workers, flaky, calls>>

\* the pool sizes tried (MAX_WORKERS = 20 is more threads than any run here
\* has work items; a pool of one runs them one after the other)
PoolSizes == {1, 2}

\* the cache file a run starts with: none, or what the first call of an
\* earlier run left
EarlierRunFile ==
    OkFile([flat |-> EmptyMap,
            nested |-> DictSet(EmptyMap, "avere",
                          DictSet(EmptyMap, "Presente",
                              get_conjugation_from_llm(
                                  [verb |-> "avere", tense |-> "Presente"],
                                  "<ul>1</ul>")))])

\* the work items a run is given
ItemUniverse ==
    {VerbPackage(verb, "Presente", "1st person plural", <<"a", " ", "a">>) :
        verb \in Verbs}

Init ==
    /\ harness = "build_note_list"
    /\ work \in SeqsUpTo(ItemUniverse, MaxItems)
    /\ max_workers \in PoolSizes
    /\ flaky = {}
    /\ pc = [i \in DOMAIN work |-> "new"]
    /\ attempt = [i \in DOMAIN work |-> 0]
    /\ loc = [i \in DOMAIN work |-> NoLocals]
    /\ main = [pc |-> "idle", next |-> 1, exception |-> FALSE]
    /\ notes = <<>>
    /\ file \in {AbsentFile, EarlierRunFile}
    /\ conj_requests = EmptyMap
    /\ calls = [n |-> 0]
    /\ exp = [status |-> "idle"] /\ clz = [status |-> "idle"]
    /\ lnk = [status |-> "idle"] /\ rty = [status |-> "idle"]

Next ==
    \/ Dispatch
    \/ \E i \in Items : WorkerStart(i)
    \/ \E i \in Items : SentenceFails(i)
    \/ \E i \in Items : SentenceAnswers(i)
    \/ \E i \in Items : FlashcardCloze(i)
    \/ \E i \in Items : TranslateFails(i)
    \/ \E i \in Items : TranslateAnswers(i)
    \/ \E i \in Items : DiskReadAbsent(i)
    \/ \E i \in Items : DiskReadHit(i)
    \/ \E i \in Items : DiskReadMiss(i)
    \/ \E i \in Items : DiskReadUnreadable(i)
    \/ \E i \in Items : LlmAnswers(i)
    \/ \E i \in Items : LlmFailsInExtra(i)
    \/ \E i \in Items : OpenForWrite(i)
    \/ \E i \in Items : Dump(i)
    \/ CollectException
    \/ CollectDone
    \/ Shutdown
    \/ CreateNote
    \/ ShuffleAndReturn

Spec == Init /\ [][Next]_vars

\* Every external request is answered or fails, and every thread that can
\* take a step gets to take one.
FairSpec == Spec /\ WF_vars(Next)

-----------------------------------------------------------------------------
(* Values shared by the initial states.                                    *)

IdleExp == [status |-> "idle"]
IdleClz == [status |-> "idle"]
IdleLnk == [status |-> "idle"]
IdleRty == [status |-> "idle"]
IdleMain == [pc |-> "idle"]
IdleCalls == [n |-> 0]

\* every variable that the pure-function and retry harnesses leave alone
IdleProgram ==
    /\ file = AbsentFile
    /\ conj_requests = EmptyMap
    /\ work = <<>>
    /\ pc = <<>>
    /\ attempt = <<>>
    /\ loc = <<>>
    /\ main = IdleMain
    /\ notes = <<>>
    /\ max_workers = 0
    /\ flaky = {}
    /\ calls = IdleCalls

-----------------------------------------------------------------------------
(* Harness: one invocation of a retried operation.                         *)

RetryInit ==
    /\ harness = "retry"
    /\ \E op \in RetriedOps :
          rty = [op |-> op, status |-> "calling", attempt_number |-> 1,
                 failures |-> 0, response |-> "", result |-> Empty]
    /\ exp = IdleExp /\ clz = IdleClz /\ lnk = IdleLnk
    /\ IdleProgram

RetryNext == RetryAttemptFails \/ RetryAttemptSucceeds

RetrySpec == RetryInit /\ [][RetryNext]_vars

-----------------------------------------------------------------------------
(* Harness: build_verb_package_list on every choice of lists.              *)

ExpandInit ==
    /\ harness = "build_verb_package_list"
    /\ \E verbs \in SeqsUpTo(Verbs, MaxListLen),
          tenses \in SeqsUpTo(Tenses, MaxListLen),
          persons \in SeqsUpTo(Persons, MaxListLen) :
          exp = [status |-> "called", verbs |-> verbs, tenses |-> tenses,
                 persons |-> persons, verb_packages |-> <<>>]
    /\ clz = IdleClz /\ lnk = IdleLnk /\ rty = IdleRty
    /\ IdleProgram

\* the subject every VerbPackage gets: the dataclass default, drawn once
DefaultSubject == <<"a", " ", "a">>

BuildVerbPackageList ==
    /\ harness = "build_verb_package_list"
    /\ exp.status = "called"
    /\ exp' = [exp EXCEPT
                 !.status = "returned",
                 !.verb_packages =
                     build_verb_package_list(exp.verbs, exp.tenses, exp.persons,
                                             DefaultSubject)]
    /\ UNCHANGED <<harness, clz, lnk, rty, file, conj_requests, work, pc,
                   attempt, loc, main, notes, max_workers, flaky, calls>>

ExpandNext == BuildVerbPackageList

ExpandSpec == ExpandInit /\ [][ExpandNext]_vars

-----------------------------------------------------------------------------
(* Harness: get_wikipedia_link_for_subject on every subject.               *)

LinkInit ==
    /\ harness = "get_wikipedia_link_for_subject"
    /\ \E subject \in SeqsUpTo(Chars, MaxSubjectLen), verb \in Verbs :
          lnk = [status |-> "called",
                 verb_package |->
                     VerbPackage(verb, "Presente", "1st person plural", subject),
                 final_url |-> <<>>]
    /\ exp = IdleExp /\ clz = IdleClz /\ rty = IdleRty
    /\ IdleProgram

GetWikipediaLink ==
    /\ harness = "get_wikipedia_link_for_subject"
    /\ lnk.status = "called"
    /\ lnk' = [lnk EXCEPT
                 !.status = "returned",
                 !.final_url =
                     get_wikipedia_link_for_subject(lnk.verb_package).final_url]
    /\ UNCHANGED <<harness, exp, clz, rty, file, conj_requests, work, pc,
                   attempt, loc, main, notes, max_workers, flaky, calls>>

LinkNext == GetWikipediaLink

LinkSpec == LinkInit /\ [][LinkNext]_vars

-----------------------------------------------------------------------------
(* Harness: create_flashcard_cloze on every token sequence.                *)

ClozeInit ==
    /\ harness = "create_flashcard_cloze"
    /\ \E sentence \in SeqsUpTo(Tokens, MaxTokens), verb \in Verbs :
          clz = [status |-> "called",
                 verb_package |->
                     [VerbPackage(verb, "Presente", "1st person plural",
                                  DefaultSubject)
                        EXCEPT !.sentence = sentence]]
    /\ exp = IdleExp /\ lnk = IdleLnk /\ rty = IdleRty
    /\ IdleProgram

CreateFlashcardCloze ==
    /\ harness = "create_flashcard_cloze"
    /\ clz.status = "called"
    /\ LET r == create_flashcard_cloze(clz.verb_package)
       IN  clz' = [status |-> IF r.raised THEN "raised" ELSE "returned",
                   verb_package |-> r.verb_package]
    /\ UNCHANGED <<harness, exp, lnk, rty, file, conj_requests, work, pc,
                   attempt, loc, main, notes, max_workers, flaky, calls>>

ClozeNext == CreateFlashcardCloze

ClozeSpec == ClozeInit /\ [][ClozeNext]_vars

-----------------------------------------------------------------------------
(* Properties.                                                             *)

\* occurrences of x in a list
Count(seq, x) == Cardinality({n \in DOMAIN seq : seq[n] = x})

\* the cache file f holds conjugation for (verb, tense), under the composite
\* key or nested under the verb
Recorded(f, verb, tense, conjugation) ==
    /\ f.state = "ok"
    /\ \/ /\ <<verb, tense>> \in DOMAIN f.flat
          /\ f.flat[<<verb, tense>>] = conjugation
       \/ /\ verb \in DOMAIN f.nested
          /\ tense \in DOMAIN f.nested[verb]
          /\ f.nested[verb][tense] = conjugation

\* entries of the cache file f that belong to (verb, tense)
EntriesFor(f, verb, tense) ==
    (IF <<verb, tense>> \in DOMAIN f.flat THEN 1 ELSE 0)
    + (IF verb \in DOMAIN f.nested /\ tense \in DOMAIN f.nested[verb] THEN 1 ELSE 0)

\* C1: when two work items with different (verb, tense) keys have both gone
\* through a cache miss and both calls have returned, the cache file holds
\* both new entries (looked at when no write of the file is under way and
\* the file is a well-formed JSON object).
C1_ConcurrentMissesBothPersisted ==
    InPipeline =>
      \A i, j \in Items :
        ( /\ i # j
          /\ VerbTense(work[i]) # VerbTense(work[j])
          /\ pc[i] = "done" /\ loc[i].branch = "miss"
          /\ pc[j] = "done" /\ loc[j].branch = "miss"
          /\ \A k \in Items : pc[k] \notin {"open_w", "dump"}
          /\ file.state = "ok" )
        => /\ Recorded(file, work[i].verb, work[i].tense,
                       work[i].flashcard_extra.conjugation)
           /\ Recorded(file, work[j].verb, work[j].tense,
                       work[j].flashcard_extra.conjugation)

\* C2: of two calls of get_conjugation_from_disk in succession for the same
\* (verb, tense), the second returns what the first returned and sends no
\* request to the LLM, whatever the file was before the first call (absent
\* included).
C2_SecondCallIsAHit ==
    ( /\ InDirect
      /\ calls.cur.status = "returned"
      /\ calls.prev.status = "returned"
      /\ calls.prev.verb = calls.cur.verb
      /\ calls.prev.tense = calls.cur.tense )
    => /\ calls.cur.ret = calls.prev.ret
       /\ ~calls.cur.asked
       /\ conj_requests = calls.cur.requests_before

\* C3: when one work item has failed with its retries exhausted while another
\* has completed, build_note_list does not raise: it returns, and the notes
\* of the completed items are in what it returns.
C3_FailedItemDoesNotAbort ==
    ( /\ InPipeline
      /\ main.pc \in {"raised", "returned"}
      /\ \E i \in Items : pc[i] = "failed" /\ loc[i].exception = "RetryError"
      /\ \E j \in Items : pc[j] = "done" )
    => /\ main.pc = "returned"
       /\ \A j \in Items : pc[j] = "done" => Count(notes, create_note(work[j])) >= 1

\* C4: whenever build_note_list returns, for any pool size, it returns as
\* many notes as there are work items, every work item has completed with
\* both fields generated, and the returned notes are, as a multiset, the notes
\* of the work items.
C4_OneNotePerItem ==
    (InPipeline /\ main.pc = "returned") =>
      /\ Len(notes) = Len(work)
      /\ \A i \in Items :
           /\ pc[i] = "done"
           /\ work[i].flashcard_cloze # Empty
           /\ work[i].flashcard_extra # Empty
           /\ Count(notes, create_note(work[i]))
                = Cardinality({j \in Items : create_note(work[j]) = create_note(work[i])})
      /\ \A n \in DOMAIN notes : \E i \in Items : notes[n] = create_note(work[i])

\* C4 happens: two work items with different notes, run by two threads, and
\* returned in the other order
C4_Witness ==
    /\ InPipeline
    /\ main.pc = "returned"
    /\ max_workers = 2
    /\ Len(notes) = 2
    /\ notes[1] # notes[2]
    /\ notes[1] = create_note(work[2])

\* C5: a retried operation never makes more attempts than its stop bound
\* (10; 6 for create_flashcard_extra), and when its external call has failed
\* three times and then answered, the operation has returned, on its fourth
\* attempt, the result made of that answer.
C5_RetryReturnsWithinBound ==
    harness = "retry" =>
      /\ rty.attempt_number
           <= (IF rty.op = "create_flashcard_extra" THEN STOP_AFTER_EXTRA ELSE STOP_AFTER)
      /\ rty.failures <= rty.attempt_number
      /\ (rty.failures = 3 /\ rty.status # "calling")
           => /\ rty.status = "returned"
              /\ rty.attempt_number = 4
              /\ rty.response \in Responses
              /\ rty.result = OpResult(rty.op, rty.response)

\* C5 happens: three failures, then the answer
C5_Witness ==
    /\ harness = "retry"
    /\ rty.status = "returned"
    /\ rty.failures = 3
    /\ rty.op = "create_flashcard_extra"

\* the pieces hold exactly one "{{c1::" opener and exactly one "}}" closer,
\* the opener first
OneClozeSpan(pieces) ==
    /\ Cardinality({n \in DOMAIN pieces : pieces[n].k = "{{c1::"}) = 1
    /\ Cardinality({n \in DOMAIN pieces : pieces[n].k = "}}"}) = 1
    /\ \A a, b \in DOMAIN pieces :
         (pieces[a].k = "{{c1::" /\ pieces[b].k = "}}") => a < b

\* C6: for every token sequence (that uses the verb of the work item), the
\* front field create_flashcard_cloze produces holds exactly one well-formed
\* cloze span: one "{{c1::" opener followed by one "}}" closer.
C6_ExactlyOneClozeSpan ==
    ( /\ harness = "create_flashcard_cloze"
      /\ clz.status = "returned"
      /\ \E n \in DOMAIN clz.verb_package.sentence :
            IsVerbToken(clz.verb_package.sentence[n], clz.verb_package.verb) )
    => OneClozeSpan(clz.verb_package.flashcard_cloze.cloze)

\* C7: starting from no cache file, after any sequence of calls the file
\* holds at most one entry for each (verb, tense), under the composite key or
\* nested under the verb.
C7_AtMostOneEntryPerPair ==
    (InDirect /\ calls.file0.state = "absent")
    => \A verb \in Verbs, tense \in Tenses : EntriesFor(file, verb, tense) <= 1

\* C8: run one call after the other, a call that went through a cache miss
\* and returned leaves a file that holds every entry the file held before the
\* call, with the same value, and the new entry.
C8_MissRewritesWholeMap ==
    (InDirect /\ calls.cur.status = "returned" /\ calls.cur.miss)
    => /\ file.state = "ok"
       /\ \A key \in DOMAIN calls.cur.before.flat :
            key \in DOMAIN file.flat /\ file.flat[key] = calls.cur.before.flat[key]
       /\ \A verb \in DOMAIN calls.cur.before.nested :
            verb \in DOMAIN file.nested
            /\ file.nested[verb] = calls.cur.before.nested[verb]
       /\ Recorded(file, calls.cur.verb, calls.cur.tense, calls.cur.ret)

\* C8 happens: a miss on a file that held an entry for another key
C8_Witness ==
    /\ InDirect
    /\ calls.cur.status = "returned"
    /\ calls.cur.miss
    /\ calls.cur.before.state = "ok"
    /\ <<"avere", "Presente">> \in DOMAIN calls.cur.before.flat
    /\ calls.cur.verb = "essere"

\* C9: the URL get_wikipedia_link_for_subject builds is the fixed search base
\* followed by the subject with every space turned into an underscore and
\* every other character kept; it depends on the subject alone, and no
\* request is sent and no file touched.
C9_WikipediaUrl ==
    (harness = "get_wikipedia_link_for_subject" /\ lnk.status = "returned")
    => LET subject == lnk.verb_package.subject
           url == lnk.final_url
           n == Len(base_url)
       IN  /\ Len(url) = n + Len(subject)
           /\ SubSeq(url, 1, n) = base_url
           /\ \A i \in 1..Len(subject) :
                url[n + i] = IF subject[i] = " " THEN "_" ELSE subject[i]
           /\ conj_requests = EmptyMap
           /\ file = AbsentFile

\* C9 happens: a subject with two spaces or more
C9_Witness ==
    /\ harness = "get_wikipedia_link_for_subject"
    /\ lnk.status = "returned"
    /\ Count(lnk.verb_package.subject, " ") >= 2
    /\ Count(lnk.verb_package.subject, "a") >= 1

Triple(verb_package) ==
    <<verb_package.verb, verb_package.tense, verb_package.person>>

NoRepeats(list) == \A a, b \in DOMAIN list : a # b => list[a] # list[b]

\* C10: build_verb_package_list returns
\* len(verbs) * len(tenses) * len(persons) work items, one for each element
\* of the cross-product of the three lists (each choice of a position in
\* verbs, in tenses and in persons), in the order of the nested loops, and no
\* work item for any other triple; when no list repeats an entry there is
\* exactly one work item for each (verb, tense, person).
C10_OnePerPositionTriple ==
    (harness = "build_verb_package_list" /\ exp.status = "returned")
    => /\ Len(exp.verb_packages)
            = Len(exp.verbs) * Len(exp.tenses) * Len(exp.persons)
       /\ \A i \in DOMAIN exp.verbs, j \in DOMAIN exp.tenses, k \in DOMAIN exp.persons :
            Triple(exp.verb_packages[((i - 1) * Len(exp.tenses) + (j - 1))
                                       * Len(exp.persons) + k])
              = <<exp.verbs[i], exp.tenses[j], exp.persons[k]>>
       /\ (NoRepeats(exp.verbs) /\ NoRepeats(exp.tenses) /\ NoRepeats(exp.persons))
            => \A verb \in Range(exp.verbs), tense \in Range(exp.tenses),
                  person \in Range(exp.persons) :
                 Cardinality({n \in DOMAIN exp.verb_packages :
                      Triple(exp.verb_packages[n]) = <<verb, tense, person>>}) = 1
       /\ \A n \in DOMAIN exp.verb_packages :
            /\ exp.verb_packages[n].verb \in Range(exp.verbs)
            /\ exp.verb_packages[n].tense \in Range(exp.tenses)
            /\ exp.verb_packages[n].person \in Range(exp.persons)

\* C10 happens: two verbs, two tenses and two persons, none repeated
C10_Witness ==
    /\ harness = "build_verb_package_list"
    /\ exp.status = "returned"
    /\ exp.verbs = <<"essere", "avere">>
    /\ Len(exp.tenses) = 2 /\ NoRepeats(exp.tenses)
    /\ Len(exp.persons) = 2 /\ NoRepeats(exp.persons)
    /\ Len(exp.verb_packages) = 8

\* C11: no note exists and nothing is returned until every work item has
\* finished create_flashcard_pair: while build_note_list is in its notes loop
\* or has returned, or holds any note, every work item is done, and each
\* create_note step is taken with every work item done.
C11_NotesOnlyAfterAllDone ==
    InPipeline =>
      ( (main.pc \in {"notes", "returned"} \/ Len(notes) > 0)
        => \A i \in Items : pc[i] = "done" /\ work[i].flashcard_extra # Empty )

\* C11 happens: the first note of a two-item run of two threads is created
C11_Witness ==
    /\ InPipeline
    /\ main.pc = "notes"
    /\ max_workers = 2
    /\ Len(work) = 2
    /\ Len(notes) = 1

\* build_note_list has returned or raised
Terminated == InPipeline /\ main.pc \in {"returned", "raised"}

\* C12, termination: under fair scheduling every run of build_note_list
\* returns or raises.
C12_Terminates == <>Terminated

\* C12, the work items at termination: when build_note_list has returned or
\* raised, every work item has completed all its stages or has failed with a
\* retry budget exhausted, and none is in flight.
C12_TerminatedItemsSettled ==
    Terminated =>
      \A i \in Items :
        \/ pc[i] = "done"
        \/ pc[i] = "failed" /\ loc[i].exception = "RetryError"

\* where a thread stands inside create_flashcard_extra
ExtraPcs == {"translate", "disk", "llm", "open_w", "dump"}

\* C13: a work item that has entered create_flashcard_extra never goes back
\* to create_italian_sentence: each of its steps, a failed translation call
\* and the retry after it included, leaves it inside create_flashcard_extra
\* or ends the work item, and leaves its sentence and its cloze as they were.
C13_ExtraRetriesKeepSentence ==
    [][ InPipeline =>
          \A i \in Items :
            pc[i] \in ExtraPcs
            => /\ pc'[i] \in ExtraPcs \cup {"done", "failed"}
               /\ work'[i].sentence = work[i].sentence
               /\ work'[i].flashcard_cloze = work[i].flashcard_cloze ]_vars

\* C13 happens: a second attempt of create_flashcard_extra is about to call
\* the translation service, after a first attempt that failed there (no
\* conjugation request was sent and there is no cache file to fail on)
C13_Witness ==
    /\ InPipeline
    /\ \E i \in Items :
         /\ pc[i] = "translate"
         /\ attempt[i] = 2
         /\ i \in flaky
         /\ work[i].sentence # Empty
    /\ conj_requests = EmptyMap
    /\ file = AbsentFile

\* C14: for every token sequence create_cloze runs to completion: it never
\* reads verb_phrases[phrase_idx] with phrase_idx at or beyond the number of
\* collected verb phrases (IndexError).
C14_CreateClozeNeverRaises ==
    harness = "create_flashcard_cloze" => clz.status # "raised"

\* C15: in one run of build_note_list (with no request failing), the LLM is
\* asked for the conjugation table of any one (verb, tense) at most once.
C15_AtMostOneRequestPerPair ==
    (InPipeline /\ flaky = {})
    => \A key \in DOMAIN conj_requests : conj_requests[key] <= 1

====
